---- MODULE Spec2Model ----
(***************************************************************************)
(* Model of crankstart's graphics resource layer (src/src/graphics.rs):    *)
(* the reference-counted Bitmap wrapper and its Drop, the BitmapTable      *)
(* cache, and the drawing-context push/pop issued by with_context.         *)
(*                                                                         *)
(* The Playdate backend is the environment.  It hands out native handles   *)
(* (a fresh one per allocation, or null), keeps a context stack, and it    *)
(* records how often each handle was passed to freeBitmap and              *)
(* freeBitmapTable.  Every operation of the layer is one action; the       *)
(* variable last records the operation that ran most recently together     *)
(* with the backend entries it invoked, in order.                          *)
(*                                                                         *)
(* Every backend entry is reached through pd_func_caller!, which fails     *)
(* when the function table does not hold the entry.  The lifetime          *)
(* specifications run with a complete table; the context specifications    *)
(* also run with tables that lack pushContext or popContext, which is how  *)
(* push_context and pop_context fail.                                      *)
(***************************************************************************)
EXTENDS Integers, Sequences, FiniteSets, TLC

(* ------------------------------ bounds -------------------------------- *)
MaxInner == 3
MaxHeld == 2
MaxIndex == 2
MaxDepth == 2
MaxFonts == 3
MaxFiles == 4

(* ------------------------- backend handles ---------------------------- *)
Null == 0
DisplayBufferHandle == 1
DebugBitmapHandle == 2
Handles == 0..(DebugBitmapHandle + MaxInner)
TableHandle == 1
TableHandles == {Null, TableHandle}
Indexes == 0..(MaxIndex - 1)
FontHandles == 0..MaxFonts
FileHandles == 0..MaxFiles

Entries ==
  {"newBitmap", "loadBitmap", "rotatedBitmap", "copyFrameBufferBitmap",
   "getDisplayBufferBitmap", "getDebugBitmap", "freeBitmap",
   "newBitmapTable", "getTableBitmap", "loadIntoBitmapTable",
   "freeBitmapTable", "pushContext", "popContext", "drawBitmap",
   "copyBitmap", "loadIntoBitmap", "loadBitmapTable", "loadFont", "setFont",
   "drawText", "realloc", "checkMaskCollision", "setColorToPattern", "clear",
   "setMosaic", "setScale", "stat", "open", "read", "close", "geterr"}
FallibleEntries == {"pushContext", "popContext"}

VARIABLES
  api,            \* entries of the backend function table that hold a function
  next_handle,    \* backend: the next native bitmap handle it allocates
  freed,          \* backend: freeBitmap calls received, per handle
  ctx_stack,      \* backend: drawing-context stack, bottom first; <<>> = frame buffer
  table_content,  \* backend: bitmap handle at (table handle, index); Null = none yet
  table_freed,    \* backend: freeBitmapTable calls received, per table handle
  bitmap_inner,   \* Rc<RefCell<BitmapInner>> cells: raw_bitmap, owned, strong
  held,           \* Bitmap values in the caller's hands, per cell
  table_inner,    \* Rc<RefCell<BitmapTableInner>> cells
  frames,         \* with_context activations in progress, outermost first
  font_released,  \* backend: realloc(font, 0) calls received, per font handle
  current_font,   \* backend: the font of the last setFont; Null = system font
  font_inner,     \* Font values: the handle, and whether the value still exists
  file_closed,    \* backend: close calls received, per file handle
  file_inner,     \* File values: the handle, and whether the value still exists
  last            \* the most recent operation and the entries it invoked

vars == <<api, next_handle, freed, ctx_stack, table_content,
          table_freed, bitmap_inner, held, table_inner, frames,
          font_released, current_font, font_inner, file_closed, file_inner, last>>

fonts == <<font_released, current_font, font_inner>>
files == <<file_closed, file_inner>>

graphics == <<next_handle, freed, ctx_stack, table_content, table_freed,
              bitmap_inner, held, table_inner, frames>>
backend_bitmaps == <<next_handle, freed>>
backend_tables == <<table_content, table_freed>>
bitmap_cells == <<bitmap_inner, held>>

(* --------------------------- pd_func_caller --------------------------- *)
\* pd_func_caller!/pd_func_caller_log!: the entry is invoked when the function
\* table holds it; otherwise the call fails (or is logged) without reaching
\* the backend.
Avail(entry) == entry \in api

Call(entry, arg) == <<entry, arg>>

Count(calls, c) == Cardinality({k \in 1..Len(calls) : calls[k] = c})

\* freeBitmap calls of `calls` as the backend receives them.
FreeBitmapEffect(calls) ==
  [h \in Handles |->
     IF Avail("freeBitmap") THEN freed[h] + Count(calls, Call("freeBitmap", h))
     ELSE freed[h]]

Init ==
  /\ api = Entries
  /\ next_handle = DebugBitmapHandle + 1
  /\ freed = [h \in Handles |-> 0]
  /\ ctx_stack = <<>>
  /\ table_content = [t \in TableHandles |-> [i \in Indexes |-> Null]]
  /\ table_freed = [t \in TableHandles |-> 0]
  /\ bitmap_inner = <<>>
  /\ held = <<>>
  /\ table_inner = <<>>
  /\ frames = <<>>
  /\ font_released = [h \in FontHandles |-> 0]
  /\ current_font = Null
  /\ font_inner = <<>>
  /\ file_closed = [h \in FileHandles |-> 0]
  /\ file_inner = <<>>
  /\ last = [op |-> "init", calls |-> <<>>, ok |-> TRUE]

(* ------------------------------ Bitmap -------------------------------- *)
\* Bitmap::new: a new cell with one strong reference, handed to the caller.
BitmapNew(raw_bitmap, owned) ==
  /\ bitmap_inner' = Append(bitmap_inner,
        [raw_bitmap |-> raw_bitmap, owned |-> owned, strong |-> 1])
  /\ held' = Append(held, 1)

Cells == 1..Len(bitmap_inner)

\* A backend allocation: null, or a handle never handed out before.
AllocResults == IF next_handle \in Handles THEN {Null, next_handle} ELSE {Null}

AllocEffect(raw) ==
  /\ next_handle' = IF raw = next_handle THEN next_handle + 1 ELSE next_handle
  /\ freed' = freed

\* The factories that refuse a null handle (anyhow::ensure! / is_null()).
CheckedFactory(op, entry, results, owned) ==
  /\ Len(bitmap_inner) < MaxInner
  /\ \E raw \in results :
       /\ AllocEffect(raw)
       /\ IF raw = Null
          THEN /\ UNCHANGED bitmap_cells
               /\ last' = [op |-> op, calls |-> <<Call(entry, Null)>>, ok |-> FALSE]
          ELSE /\ BitmapNew(raw, owned)
               /\ last' = [op |-> op, calls |-> <<Call(entry, Null)>>, ok |-> TRUE,
                           ret |-> Len(bitmap_inner) + 1]
  /\ UNCHANGED <<api, fonts, files, ctx_stack, backend_tables, table_inner, frames>>

\* Graphics::new_bitmap
NewBitmap == CheckedFactory("new_bitmap", "newBitmap", AllocResults, TRUE)

\* The failure load_bitmap reports for a null handle: the backend's message
\* when out_err was set, a message of its own otherwise.
LoadBitmapError_Generic(out_err) == "generic"

LoadBitmapError(out_err) == IF out_err = "message" THEN "message" ELSE "generic"

\* Graphics::load_bitmap.  out_err is what the backend leaves in the error
\* pointer; "bad_path" is a path CString::new rejects, which fails before the
\* backend is reached.
LoadBitmap ==
  /\ Len(bitmap_inner) < MaxInner
  /\ \E raw \in AllocResults, out_err \in {"none", "message", "bad_path"} :
       /\ out_err = "bad_path" => raw = Null
       /\ AllocEffect(raw)
       /\ IF raw = Null
          THEN /\ UNCHANGED bitmap_cells
               /\ last' = [op |-> "load_bitmap",
                           calls |-> IF out_err = "bad_path" THEN <<>>
                                     ELSE <<Call("loadBitmap", Null)>>,
                           ok |-> FALSE, raw |-> raw, out_err |-> out_err,
                           err |-> IF out_err = "bad_path" THEN "bad_path"
                                   ELSE LoadBitmapError(out_err),
                           cells_before |-> Len(bitmap_inner)]
          ELSE /\ BitmapNew(raw, TRUE)
               /\ last' = [op |-> "load_bitmap", calls |-> <<Call("loadBitmap", Null)>>,
                           ok |-> TRUE, raw |-> raw, out_err |-> out_err,
                           ret |-> Len(bitmap_inner) + 1,
                           cells_before |-> Len(bitmap_inner)]
  /\ UNCHANGED <<api, fonts, files, ctx_stack, backend_tables, table_inner, frames>>

\* Graphics::get_framebuffer_bitmap
GetFramebufferBitmap ==
  CheckedFactory("get_framebuffer_bitmap", "copyFrameBufferBitmap", AllocResults, TRUE)

\* Graphics::get_display_buffer_bitmap: the live display buffer, not a copy.
GetDisplayBufferBitmap ==
  CheckedFactory("get_display_buffer_bitmap", "getDisplayBufferBitmap",
                 {Null, DisplayBufferHandle}, FALSE)

\* Graphics::get_debug_bitmap
GetDebugBitmap ==
  CheckedFactory("get_debug_bitmap", "getDebugBitmap", {Null, DebugBitmapHandle}, FALSE)

\* Bitmap::rotated / BitmapInner::rotated: the backend's handle is wrapped as
\* owned without a null check.
Rotated(w) ==
  /\ held[w] >= 1
  /\ Len(bitmap_inner) < MaxInner
  /\ \E raw \in AllocResults :
       /\ AllocEffect(raw)
       /\ BitmapNew(raw, TRUE)
       /\ last' = [op |-> "rotated",
                   calls |-> <<Call("rotatedBitmap", bitmap_inner[w].raw_bitmap)>>,
                   ok |-> TRUE, arg |-> w, ret |-> Len(bitmap_inner) + 1]
  /\ UNCHANGED <<api, fonts, files, ctx_stack, backend_tables, table_inner, frames>>

\* The ownership flag BitmapInner::duplicate gives the copy: the source's.
DuplicateOwned_Always(w) == TRUE

DuplicateOwned(w) == bitmap_inner[w].owned

\* BitmapInner::duplicate: the handle copyBitmap returns, null or not, in a
\* new BitmapInner of its own (a cell with a single reference).
Duplicate(w) ==
  /\ held[w] >= 1
  /\ Len(bitmap_inner) < MaxInner
  /\ \E raw \in AllocResults :
       /\ AllocEffect(raw)
       /\ BitmapNew(raw, DuplicateOwned(w))
       /\ last' = [op |-> "duplicate",
                   calls |-> <<Call("copyBitmap", bitmap_inner[w].raw_bitmap)>>,
                   ok |-> TRUE, arg |-> w, ret |-> Len(bitmap_inner) + 1, raw |-> raw,
                   source_before |-> bitmap_inner[w], held_before |-> held[w]]
  /\ UNCHANGED <<api, fonts, files, ctx_stack, backend_tables, table_inner, frames>>

\* BitmapInner::load / Bitmap::load.  The backend decodes the file into the
\* bitmap, or fails and sets out_err, or fails and leaves out_err null; load
\* looks at out_err alone.
BitmapLoad(w) ==
  /\ held[w] >= 1
  /\ \E outcome \in {"decoded", "failed_message", "failed_silent"} :
       LET out_err == IF outcome = "failed_message" THEN "message" ELSE "none" IN
       last' = [op |-> "bitmap_load",
                calls |-> <<Call("loadIntoBitmap", bitmap_inner[w].raw_bitmap)>>,
                ok |-> (out_err = "none"), arg |-> w, outcome |-> outcome,
                err |-> IF out_err = "none" THEN "none" ELSE "message"]
  /\ UNCHANGED <<api, fonts, files, backend_bitmaps, ctx_stack, backend_tables, bitmap_cells,
                 table_inner, frames>>

\* #[derive(Clone)] on Bitmap: Rc::clone bumps the strong count of the cell.
CloneStrong_Forgotten(strong) == strong

CloneStrong(strong) == strong + 1

Clone(w) ==
  /\ held[w] >= 1
  /\ held[w] < MaxHeld
  /\ bitmap_inner' = [bitmap_inner EXCEPT ![w].strong = CloneStrong(@)]
  /\ held' = [held EXCEPT ![w] = @ + 1]
  /\ last' = [op |-> "clone", calls |-> <<>>, ok |-> TRUE, arg |-> w, ret |-> w]
  /\ UNCHANGED <<api, fonts, files, backend_bitmaps, ctx_stack, backend_tables, table_inner, frames>>

\* impl Drop for BitmapInner: the entries invoked when cell w is destroyed.
DropBitmapInner_Always(w) == <<Call("freeBitmap", bitmap_inner[w].raw_bitmap)>>

DropBitmapInner(w) ==
  IF bitmap_inner[w].owned
  THEN <<Call("freeBitmap", bitmap_inner[w].raw_bitmap)>>
  ELSE <<>>

\* Rc: the value is destroyed when the reference dropped is the last one.
LastReference_Any(w) == TRUE

LastReference(w) == bitmap_inner[w].strong = 1

\* Entries invoked by dropping one reference to cell w.
RcDropCalls(w) == IF LastReference(w) THEN DropBitmapInner(w) ELSE <<>>

\* with_context borrows the caller's Bitmap (&Bitmap) for the whole call, so
\* the caller cannot drop its only Bitmap of a cell that a frame is using.
Borrowed(w) == \E k \in 1..Len(frames) : frames[k].bitmap = w

\* A caller drops one of its Bitmap values.
DropBitmap(w) ==
  /\ held[w] >= 1
  /\ Borrowed(w) => held[w] > 1
  /\ LET calls == RcDropCalls(w) IN
       /\ freed' = FreeBitmapEffect(calls)
       /\ last' = [op |-> "drop_bitmap", calls |-> calls, ok |-> TRUE, arg |-> w]
  /\ bitmap_inner' = [bitmap_inner EXCEPT ![w].strong = @ - 1]
  /\ held' = [held EXCEPT ![w] = @ - 1]
  /\ UNCHANGED <<api, fonts, files, next_handle, ctx_stack, backend_tables, table_inner, frames>>

(* ---------------------------- BitmapTable ----------------------------- *)
Tables == 1..Len(table_inner)

NoCache == [i \in Indexes |-> 0]

\* BitmapTable::new: the handle is wrapped as it comes, with an empty cache.
\* first is the history of the cell: the handle of the first successful
\* get_bitmap of each index (Null = none yet).
BitmapTableNew(raw_bitmap_table) ==
  table_inner' = Append(table_inner,
     [raw_bitmap_table |-> raw_bitmap_table, bitmaps |-> NoCache, strong |-> 1,
      first |-> [i \in Indexes |-> Null]])

\* Graphics::new_bitmap_table.  Tables share no state, so the model follows
\* one BitmapTable (and its clones) from creation to destruction.
NewBitmapTable ==
  /\ table_inner = <<>>
  /\ \E raw \in TableHandles :
       /\ BitmapTableNew(raw)
       /\ last' = [op |-> "new_bitmap_table", calls |-> <<Call("newBitmapTable", Null)>>,
                   ok |-> TRUE, ret |-> Len(table_inner) + 1]
  /\ UNCHANGED <<api, fonts, files, backend_bitmaps, ctx_stack, backend_tables, bitmap_cells, frames>>

\* Graphics::load_bitmap_table: a null table handle is a failure.
LoadBitmapTable ==
  /\ table_inner = <<>>
  /\ \E raw \in TableHandles, out_err \in {"none", "message"} :
       IF raw = Null
       THEN /\ UNCHANGED table_inner
            /\ last' = [op |-> "load_bitmap_table",
                        calls |-> <<Call("loadBitmapTable", Null)>>, ok |-> FALSE,
                        err |-> LoadBitmapError(out_err)]
       ELSE /\ BitmapTableNew(raw)
            /\ last' = [op |-> "load_bitmap_table",
                        calls |-> <<Call("loadBitmapTable", Null)>>, ok |-> TRUE,
                        ret |-> Len(table_inner) + 1]
  /\ UNCHANGED <<api, fonts, files, backend_bitmaps, ctx_stack, backend_tables, bitmap_cells, frames>>

\* #[derive(Clone)] on BitmapTable
CloneTable(t) ==
  /\ table_inner[t].strong >= 1
  /\ table_inner[t].strong < MaxHeld
  /\ table_inner' = [table_inner EXCEPT ![t].strong = @ + 1]
  /\ last' = [op |-> "clone_table", calls |-> <<>>, ok |-> TRUE, arg |-> t]
  /\ UNCHANGED <<api, fonts, files, backend_bitmaps, ctx_stack, backend_tables, bitmap_cells, frames>>

\* self.bitmaps.get(&index): the cell cached under index, 0 when there is none.
CacheLookup_Miss(t, index) == 0

CacheLookup(t, index) == table_inner[t].bitmaps[index]

\* getTableBitmap as the backend answers it: the bitmap the table holds at
\* index; an index it has not resolved before yields null or a new handle.
TableBitmapResults(t, index) ==
  LET raw_table == table_inner[t].raw_bitmap_table IN
  IF raw_table = Null THEN {Null}
  ELSE IF table_content[raw_table][index] # Null THEN {table_content[raw_table][index]}
  ELSE IF Len(bitmap_inner) < MaxInner THEN AllocResults
  ELSE {Null}

\* self.bitmaps.insert(index, bitmap.clone())
CacheInsert_Skipped(cache, index, w) == cache

CacheInsert(cache, index, w) == [cache EXCEPT ![index] = w]

\* BitmapTable::get_bitmap / BitmapTableInner::get_bitmap
GetBitmap(t, index) ==
  /\ table_inner[t].strong >= 1
  /\ LET w == CacheLookup(t, index)
         raw_table == table_inner[t].raw_bitmap_table IN
     IF w # 0
     THEN /\ held[w] < MaxHeld
          /\ bitmap_inner' = [bitmap_inner EXCEPT ![w].strong = CloneStrong(@)]
          /\ held' = [held EXCEPT ![w] = @ + 1]
          /\ last' = [op |-> "get_bitmap", calls |-> <<>>, ok |-> TRUE, arg |-> t,
                      index |-> index, ret |-> w,
                      cache_before |-> table_inner[t].bitmaps]
          /\ UNCHANGED <<backend_bitmaps, table_content, table_inner>>
     ELSE \E raw \in TableBitmapResults(t, index) :
          /\ AllocEffect(raw)
          /\ table_content' =
               IF raw = Null THEN table_content
               ELSE [table_content EXCEPT ![raw_table][index] = raw]
          /\ IF raw = Null
             THEN /\ UNCHANGED <<bitmap_cells, table_inner>>
                  /\ last' = [op |-> "get_bitmap",
                              calls |-> <<Call("getTableBitmap", <<raw_table, index>>)>>,
                              ok |-> FALSE, arg |-> t, index |-> index,
                              cache_before |-> table_inner[t].bitmaps]
             ELSE /\ bitmap_inner' = Append(bitmap_inner,
                       [raw_bitmap |-> raw, owned |-> TRUE, strong |-> CloneStrong(1)])
                  /\ held' = Append(held, 1)
                  /\ table_inner' = [table_inner EXCEPT
                       ![t].bitmaps = CacheInsert(@, index, Len(bitmap_inner) + 1),
                       ![t].first = IF @[index] = Null THEN [@ EXCEPT ![index] = raw]
                                    ELSE @]
                  /\ last' = [op |-> "get_bitmap",
                              calls |-> <<Call("getTableBitmap", <<raw_table, index>>)>>,
                              ok |-> TRUE, arg |-> t, index |-> index,
                              ret |-> Len(bitmap_inner) + 1,
                              cache_before |-> table_inner[t].bitmaps]
  /\ UNCHANGED <<api, fonts, files, ctx_stack, table_freed, frames>>

\* loadIntoBitmapTable replaces what the backend's table holds; the bitmaps at
\* its indexes are new ones afterwards.
LoadIntoTableEffect(raw_table, out_err) ==
  IF raw_table = Null \/ out_err # "none" THEN table_content
  ELSE [table_content EXCEPT ![raw_table] = [i \in Indexes |-> Null]]

\* What load does to the cache of resolved indexes: nothing.
CacheAfterLoad_Cleared(cache) == NoCache

CacheAfterLoad(cache) == cache

\* BitmapTable::load / BitmapTableInner::load.  out_err is what the backend
\* leaves in the error pointer; "bad_path" is a path CString::new rejects,
\* which fails before the backend is reached.
TableLoad(t) ==
  /\ table_inner[t].strong >= 1
  /\ \E out_err \in {"none", "message", "bad_path"} :
       LET raw_table == table_inner[t].raw_bitmap_table IN
       /\ table_content' = LoadIntoTableEffect(raw_table, out_err)
       /\ table_inner' = [table_inner EXCEPT ![t].bitmaps = CacheAfterLoad(@)]
       /\ last' = [op |-> "table_load",
                   calls |-> IF out_err = "bad_path" THEN <<>>
                             ELSE <<Call("loadIntoBitmapTable", raw_table)>>,
                   ok |-> (out_err = "none"), arg |-> t,
                   cache_before |-> table_inner[t].bitmaps]
  /\ UNCHANGED <<api, fonts, files, backend_bitmaps, ctx_stack, table_freed, bitmap_cells, frames>>

\* The cells the cache of table t refers to.
Cached(t) == {table_inner[t].bitmaps[i] : i \in Indexes} \ {0}

\* Dropping the HashMap drops every cached Bitmap, here in index order.
RECURSIVE CacheDropCalls(_, _)
CacheDropCalls(t, i) ==
  IF i >= MaxIndex THEN <<>>
  ELSE (IF table_inner[t].bitmaps[i] # 0
        THEN RcDropCalls(table_inner[t].bitmaps[i]) ELSE <<>>)
       \o CacheDropCalls(t, i + 1)

\* impl Drop for BitmapTableInner, then the drop of its fields.
DropBitmapTableInner_BitmapsFirst(t) ==
  CacheDropCalls(t, 0) \o <<Call("freeBitmapTable", table_inner[t].raw_bitmap_table)>>

DropBitmapTableInner(t) ==
  <<Call("freeBitmapTable", table_inner[t].raw_bitmap_table)>> \o CacheDropCalls(t, 0)

LastTableReference_Any(t) == TRUE

LastTableReference(t) == table_inner[t].strong = 1

FreeTableEffect(calls) ==
  [h \in TableHandles |->
     IF Avail("freeBitmapTable")
     THEN table_freed[h] + Count(calls, Call("freeBitmapTable", h))
     ELSE table_freed[h]]

\* A caller drops one of its BitmapTable values.
DropTable(t) ==
  /\ table_inner[t].strong >= 1
  /\ LET destroyed == LastTableReference(t)
         calls == IF destroyed THEN DropBitmapTableInner(t) ELSE <<>>
         gone == IF destroyed THEN Cached(t) ELSE {} IN
       /\ freed' = FreeBitmapEffect(calls)
       /\ table_freed' = FreeTableEffect(calls)
       /\ bitmap_inner' = [w \in Cells |->
            IF w \in gone THEN [bitmap_inner[w] EXCEPT !.strong = @ - 1]
            ELSE bitmap_inner[w]]
       /\ table_inner' = [table_inner EXCEPT
            ![t].strong = @ - 1,
            ![t].bitmaps = IF destroyed THEN NoCache ELSE @]
       /\ last' = [op |-> "drop_table", calls |-> calls, ok |-> TRUE, arg |-> t]
  /\ UNCHANGED <<api, fonts, files, next_handle, ctx_stack, table_content, held, frames>>

(* ------------------------- drawing contexts --------------------------- *)
\* pushContext / popContext as the backend performs them.
BackendPush(raw) == Append(ctx_stack, raw)

BackendPop == IF ctx_stack = <<>> THEN ctx_stack ELSE SubSeq(ctx_stack, 1, Len(ctx_stack) - 1)

\* bitmap.inner.borrow_mut().raw_bitmap: the handle with_context pushes.
PushTarget_Null(w) == Null

PushTarget(w) == bitmap_inner[w].raw_bitmap

\* The `?` on push_context: f is run only when the push succeeded.
RunsOperation_Always(push_ok) == TRUE

RunsOperation(push_ok) == push_ok

\* Graphics::with_context up to the call of f: push_context(raw_bitmap)?.
\* The RefMut of bitmap.inner.borrow_mut() is a temporary of the push
\* statement: it is gone (refmut = FALSE) by the time f runs.
WithContextEnter(w) ==
  /\ held[w] >= 1
  /\ Len(frames) < MaxDepth
  /\ Len(ctx_stack) < MaxDepth
  /\ LET raw == PushTarget(w)
         push_ok == Avail("pushContext") IN
     /\ ctx_stack' = IF push_ok THEN BackendPush(raw) ELSE ctx_stack
     /\ IF RunsOperation(push_ok)
        THEN /\ frames' = Append(frames, [bitmap |-> w, base |-> ctx_stack,
                                          pushed |-> push_ok, refmut |-> FALSE])
             /\ last' = [op |-> "push_context", calls |-> <<Call("pushContext", raw)>>,
                         ok |-> push_ok, arg |-> w]
        ELSE /\ UNCHANGED frames
             /\ last' = [op |-> "with_context", calls |-> <<Call("pushContext", raw)>>,
                         ok |-> FALSE, arg |-> w, pushed |-> FALSE, ran |-> FALSE,
                         result |-> "err_push", base |-> ctx_stack]
  /\ UNCHANGED <<api, fonts, files, backend_bitmaps, backend_tables, bitmap_cells, table_inner>>

\* Graphics::pop_context: Ok whenever the entry could be invoked.
PopContextOk == Avail("popContext")

\* Whether with_context goes on to pop_context once f has returned res.
PopsAfter_OnlyOnSuccess(res) == res = "ok"

PopsAfter(res) == TRUE

\* self.pop_context()?; res -- what with_context returns once f returned res.
WithContextResult_OfOperation(pop_ok, res) == res

WithContextResult(pop_ok, res) == IF pop_ok THEN res ELSE "err_pop"

\* Graphics::with_context from the return of f: self.pop_context()?; res
WithContextReturn(res) ==
  /\ frames # <<>>
  /\ LET top == frames[Len(frames)]
         pops == PopsAfter(res)
         calls == IF pops THEN <<Call("popContext", Null)>> ELSE <<>>
         result == WithContextResult(~pops \/ PopContextOk, res) IN
       /\ ctx_stack' = IF pops /\ Avail("popContext") THEN BackendPop ELSE ctx_stack
       /\ frames' = SubSeq(frames, 1, Len(frames) - 1)
       /\ last' = [op |-> "with_context", calls |-> calls,
                   ok |-> (result = "ok"),
                   arg |-> top.bitmap, pushed |-> top.pushed, ran |-> TRUE,
                   f_res |-> res, result |-> result, base |-> top.base]
  /\ UNCHANGED <<api, fonts, files, backend_bitmaps, backend_tables, bitmap_cells, table_inner>>

\* Graphics::with_context left by a panic of f: the unwinding passes
\* `let res = f();` and the statements after it are never reached.
WithContextUnwind ==
  /\ frames # <<>>
  /\ LET top == frames[Len(frames)] IN
       /\ frames' = SubSeq(frames, 1, Len(frames) - 1)
       /\ last' = [op |-> "with_context", calls |-> <<>>, ok |-> FALSE,
                   arg |-> top.bitmap, pushed |-> top.pushed, ran |-> TRUE,
                   f_res |-> "panic", result |-> "panic", base |-> top.base]
  /\ UNCHANGED <<api, fonts, files, backend_bitmaps, ctx_stack, backend_tables, bitmap_cells,
                 table_inner>>

\* The target the backend draws into: the top of its context stack; Null is
\* the frame buffer.
ActiveTarget == IF ctx_stack = <<>> THEN Null ELSE ctx_stack[Len(ctx_stack)]

\* RefCell: a borrow() is refused while a RefMut of the cell is alive.
ExclusivelyBorrowed(w) ==
  \E k \in 1..Len(frames) : frames[k].bitmap = w /\ frames[k].refmut

\* Bitmap::draw / BitmapInner::draw: self.inner.borrow().draw(location, flip)
Draw(w) ==
  /\ held[w] >= 1
  /\ IF ExclusivelyBorrowed(w)
     THEN last' = [op |-> "draw", calls |-> <<>>, ok |-> FALSE, arg |-> w,
                   target |-> ActiveTarget]
     ELSE last' = [op |-> "draw",
                   calls |-> <<Call("drawBitmap", bitmap_inner[w].raw_bitmap)>>,
                   ok |-> TRUE, arg |-> w, target |-> ActiveTarget]
  /\ UNCHANGED <<api, fonts, files, backend_bitmaps, ctx_stack, backend_tables, bitmap_cells,
                 table_inner, frames>>

\* Graphics::pop_context called on its own, outside with_context.
PopContext ==
  /\ frames = <<>>
  /\ ctx_stack' = IF Avail("popContext") THEN BackendPop ELSE ctx_stack
  /\ last' = [op |-> "pop_context", calls |-> <<Call("popContext", Null)>>,
              ok |-> PopContextOk, depth |-> Len(ctx_stack)]
  /\ UNCHANGED <<api, fonts, files, backend_bitmaps, backend_tables, bitmap_cells, table_inner, frames>>

(* ------------------------- pixels and colors -------------------------- *)
\* A by-value Bitmap argument is dropped when the callee returns: one
\* reference to cell w goes, after the entries in `calls` were invoked.
ConsumeBitmap(w, calls) ==
  /\ freed' = FreeBitmapEffect(calls \o RcDropCalls(w))
  /\ bitmap_inner' = [bitmap_inner EXCEPT ![w].strong = @ - 1]
  /\ held' = [held EXCEPT ![w] = @ - 1]

\* The caller has a Bitmap of cell w to call the method on and a Bitmap of
\* cell other to give away.
CanPass(w, other) ==
  /\ held[w] >= 1
  /\ held[other] >= 1
  /\ w = other => held[w] >= 2

\* BitmapInner::check_mask_collision: the entries it invokes for footprints
\* that intersect or not.
CollisionCalls(w, other, intersect) ==
  <<Call("checkMaskCollision",
         <<bitmap_inner[w].raw_bitmap, bitmap_inner[other].raw_bitmap>>)>>

\* Bitmap::check_mask_collision.  intersect says whether the two footprints
\* (after location and flip) meet inside rect; the backend reports the number
\* of overlapping pixels, 0 when the footprints do not meet.
CheckMaskCollision(w, other) ==
  /\ CanPass(w, other)
  /\ \E intersect \in BOOLEAN, pixels_covered \in 0..2 :
       /\ ~intersect => pixels_covered = 0
       /\ LET calls == CollisionCalls(w, other, intersect) IN
            /\ ConsumeBitmap(other, <<>>)
            /\ last' = [op |-> "check_mask_collision",
                        calls |-> calls \o RcDropCalls(other), ok |-> TRUE,
                        arg |-> w, other |-> other, intersect |-> intersect,
                        pixels_covered |-> pixels_covered,
                        ret |-> (calls # <<>> /\ pixels_covered # 0)]
  /\ UNCHANGED <<api, fonts, files, next_handle, ctx_stack, backend_tables,
                 table_inner, frames>>

\* The bitmap handle BitmapInner::into_color passes to setColorToPattern.
PatternSource(w, other) == bitmap_inner[w].raw_bitmap

\* Bitmap::into_color(bitmap, top_left): the pattern the backend derives from
\* the handle it is given; the `bitmap` argument is dropped on return.
IntoColor(w, other) ==
  /\ CanPass(w, other)
  /\ LET source == PatternSource(w, other) IN
       /\ ConsumeBitmap(other, <<>>)
       /\ last' = [op |-> "into_color",
                   calls |-> <<Call("setColorToPattern", source)>> \o RcDropCalls(other),
                   ok |-> TRUE, arg |-> w, other |-> other,
                   self_raw |-> bitmap_inner[w].raw_bitmap,
                   other_raw |-> bitmap_inner[other].raw_bitmap,
                   ret |-> [kind |-> "Pattern", pattern_of |-> source]]
  /\ UNCHANGED <<api, fonts, files, next_handle, ctx_stack, backend_tables,
                 table_inner, frames>>

SolidColors == {"kColorBlack", "kColorWhite", "kColorClear", "kColorXOR"}
Patterns == {"pattern_a", "pattern_b"}
Colors == [kind : {"Solid"}, color : SolidColors] \cup [kind : {"Pattern"}, color : Patterns]

\* impl From<LCDColor> for usize: a solid color is its enumeration value; a
\* pattern is the address of `pattern`, which the match arm binds as a local
\* of from().  frame names the function whose stack frame holds the address.
ColorIntoUsize(color) ==
  IF color.kind = "Solid" THEN [kind |-> "value", value |-> color.color]
  ELSE [kind |-> "address", frame |-> "from"]

\* The frames on the stack when pd_func_caller! invokes the entry inside
\* Graphics::clear: color.into() has returned by then.
LiveFramesAtCall == {"caller", "clear"}

\* What the backend finds behind the handle: the solid color, the pattern
\* when its storage is live, and with freed storage either the old bytes or
\* whatever was written over them.
BackendReads(color, handle) ==
  IF handle.kind = "value" THEN {handle.value}
  ELSE IF handle.frame \in LiveFramesAtCall THEN {color.color}
  ELSE {color.color, "overwritten"}

\* Graphics::clear(color)
Clear(color) ==
  /\ LET handle == ColorIntoUsize(color) IN
       \E seen \in BackendReads(color, handle) :
          last' = [op |-> "clear", calls |-> <<Call("clear", handle)>>, ok |-> TRUE,
                   color |-> color, handle |-> handle, seen |-> seen]
  /\ UNCHANGED <<api, fonts, files, graphics>>

(* ------------------------------ Display ------------------------------- *)
\* The largest mosaic factor set_mosaic documents and asserts.
MosaicMax == 3
Factors == 0..(2 * MosaicMax)
ValidScales == {1, 2, 4, 8}
Scales == 0..8

\* debug_assert!(cond): a panic in a build with debug assertions when cond is
\* false, nothing at all in a release build.
DebugAssertPanics(cond, build) == build = "debug" /\ ~cond

\* Display::set_mosaic(amount)
SetMosaic ==
  /\ \E x \in Factors, y \in Factors, build \in {"debug", "release"} :
       IF DebugAssertPanics(x <= MosaicMax /\ y <= MosaicMax, build)
       THEN last' = [op |-> "set_mosaic", calls |-> <<>>, ok |-> FALSE,
                     x |-> x, y |-> y, build |-> build, result |-> "panic"]
       ELSE last' = [op |-> "set_mosaic", calls |-> <<Call("setMosaic", <<x, y>>)>>,
                     ok |-> TRUE, x |-> x, y |-> y, build |-> build, result |-> "ok"]
  /\ UNCHANGED <<api, fonts, files, graphics>>

\* Display::set_scale(scale_factor)
SetScale ==
  /\ \E scale_factor \in Scales, build \in {"debug", "release"} :
       IF DebugAssertPanics(scale_factor \in ValidScales, build)
       THEN last' = [op |-> "set_scale", calls |-> <<>>, ok |-> FALSE,
                     scale_factor |-> scale_factor, build |-> build, result |-> "panic"]
       ELSE last' = [op |-> "set_scale", calls |-> <<Call("setScale", scale_factor)>>,
                     ok |-> TRUE, scale_factor |-> scale_factor, build |-> build,
                     result |-> "ok"]
  /\ UNCHANGED <<api, fonts, files, graphics>>

(* ------------------------------- Font --------------------------------- *)
Fonts == 1..Len(font_inner)

\* loadFont as the backend answers it: null, or a font never handed out before.
FontResults == {Null, Len(font_inner) + 1}

\* Graphics::load_font: a null font is a failure; Font::new wraps the rest.
LoadFont ==
  /\ Len(font_inner) < MaxFonts
  /\ \E raw \in FontResults, out_err \in {"none", "message"} :
       IF raw = Null
       THEN /\ UNCHANGED font_inner
            /\ last' = [op |-> "load_font", calls |-> <<Call("loadFont", Null)>>,
                        ok |-> FALSE,
                        err |-> IF out_err = "message" THEN "message" ELSE "generic"]
       ELSE /\ font_inner' = Append(font_inner, [raw |-> raw, alive |-> TRUE])
            /\ last' = [op |-> "load_font", calls |-> <<Call("loadFont", Null)>>,
                        ok |-> TRUE, ret |-> Len(font_inner) + 1]
  /\ UNCHANGED <<api, graphics, font_released, current_font, files>>

\* Graphics::set_font: the backend takes the handle of the borrowed Font as
\* its current font; the borrow ends when set_font returns.
SetFont(f) ==
  /\ font_inner[f].alive
  /\ current_font' = IF Avail("setFont") THEN font_inner[f].raw ELSE current_font
  /\ last' = [op |-> "set_font", calls |-> <<Call("setFont", font_inner[f].raw)>>,
              ok |-> TRUE, arg |-> f]
  /\ UNCHANGED <<api, graphics, font_released, font_inner, files>>

\* Graphics::draw_text: the backend draws with its current font.
DrawText ==
  /\ last' = [op |-> "draw_text", calls |-> <<Call("drawText", Null)>>,
              ok |-> TRUE, font |-> current_font,
              released |-> (current_font # Null /\ font_released[current_font] >= 1)]
  /\ UNCHANGED <<api, graphics, fonts, files>>

\* impl Drop for Font: System::get().realloc(self.0, 0)
DropFontCalls_None(f) == <<>>

DropFontCalls(f) == <<Call("realloc", <<font_inner[f].raw, 0>>)>>

ReallocEffect(calls) ==
  [h \in FontHandles |-> font_released[h] + Count(calls, Call("realloc", <<h, 0>>))]

\* The caller drops a Font; Font is neither Clone nor Copy, so this is the
\* end of the only value that wraps the handle.
DropFont(f) ==
  /\ font_inner[f].alive
  /\ LET calls == DropFontCalls(f) IN
       /\ font_released' = ReallocEffect(calls)
       /\ last' = [op |-> "drop_font", calls |-> calls, ok |-> TRUE, arg |-> f]
  /\ font_inner' = [font_inner EXCEPT ![f].alive = FALSE]
  /\ UNCHANGED <<api, graphics, current_font, files>>

(* ------------------------------- File --------------------------------- *)
Files == 1..Len(file_inner)

\* open as the backend answers it: null, or a file handle not handed out before.
OpenResults == {Null, Len(file_inner) + 1}

\* impl Drop for File: pd_func_caller_log!(close, sd_file)
CloseCalls_None(raw) == <<>>

CloseCalls(raw) == <<Call("close", raw)>>

CloseEffect(calls) ==
  [h \in FileHandles |->
     IF Avail("close") THEN file_closed[h] + Count(calls, Call("close", h))
     ELSE file_closed[h]]

\* ensure_filesystem_success: a negative result fetches the error text.
EnsureFilesystemSuccess(success) == IF success THEN <<>> ELSE <<Call("geterr", Null)>>

\* FileSystem::open: a null handle is a failure, anything else becomes a File.
Open ==
  /\ Len(file_inner) < MaxFiles
  /\ \E raw \in OpenResults :
       IF raw = Null
       THEN /\ UNCHANGED file_inner
            /\ last' = [op |-> "open", calls |-> <<Call("open", Null)>>, ok |-> FALSE,
                        files_before |-> Len(file_inner)]
       ELSE /\ file_inner' = Append(file_inner, [raw |-> raw, alive |-> TRUE])
            /\ last' = [op |-> "open", calls |-> <<Call("open", Null)>>, ok |-> TRUE,
                        ret |-> Len(file_inner) + 1, files_before |-> Len(file_inner)]
  /\ UNCHANGED <<api, graphics, fonts, file_closed>>

\* File::read on a File the caller holds.
Read(f) ==
  /\ file_inner[f].alive
  /\ \E success \in BOOLEAN :
       last' = [op |-> "read",
                calls |-> <<Call("read", file_inner[f].raw)>> \o EnsureFilesystemSuccess(success),
                ok |-> success, arg |-> f]
  /\ UNCHANGED <<api, graphics, fonts, files>>

\* The caller drops a File; File is neither Clone nor Copy.
DropFile(f) ==
  /\ file_inner[f].alive
  /\ LET calls == CloseCalls(file_inner[f].raw) IN
       /\ file_closed' = CloseEffect(calls)
       /\ last' = [op |-> "drop_file", calls |-> calls, ok |-> TRUE, arg |-> f]
  /\ file_inner' = [file_inner EXCEPT ![f].alive = FALSE]
  /\ UNCHANGED <<api, graphics, fonts>>

\* FileSystem::read_file_as_string: stat, open, read, from_utf8; each `?`
\* leaves the function, and sd_file, once opened, is dropped on the way out.
\* exit names the step whose failure ended the call ("none": success).
ReadFileAsString ==
  /\ Len(file_inner) < MaxFiles
  /\ \E exit \in {"stat", "open", "read", "utf8", "none"} :
       LET raw == Len(file_inner) + 1
           stat_calls == <<Call("stat", Null)>> \o EnsureFilesystemSuccess(exit # "stat")
           open_calls == <<Call("open", Null)>>
           read_calls == <<Call("read", raw)>> \o EnsureFilesystemSuccess(exit # "read")
           calls == IF exit = "stat" THEN stat_calls
                    ELSE IF exit = "open" THEN stat_calls \o open_calls
                    ELSE stat_calls \o open_calls \o read_calls \o CloseCalls(raw) IN
       /\ file_closed' = CloseEffect(calls)
       /\ file_inner' = IF exit \in {"stat", "open"} THEN file_inner
                        ELSE Append(file_inner, [raw |-> raw, alive |-> FALSE])
       /\ last' = [op |-> "read_file_as_string", calls |-> calls, ok |-> (exit = "none"),
                   exit |-> exit, raw |-> raw, files_before |-> Len(file_inner)]
  /\ UNCHANGED <<api, graphics, fonts>>

\* `as u8` and `as u16` on a c_int.
AsU8(x) == x % (2 ^ 8)
AsU16(x) == x % (2 ^ 16)

\* The FAT modification times of the stat records looked at.
StatRecords ==
  [m_year : {1980, 2024}, m_month : {1, 12}, m_day : {1, 31},
   m_hour : {0, 12, 23}, m_minute : {0, 30, 59}, m_second : {0, 58}]

\* FileSystem::stat: the record the backend filled in, or its failure.
Stat ==
  /\ \E success \in BOOLEAN, inner \in StatRecords :
       IF success
       THEN last' = [op |-> "stat", calls |-> <<Call("stat", Null)>>, ok |-> TRUE,
                     ret |-> inner]
       ELSE last' = [op |-> "stat",
                     calls |-> <<Call("stat", Null)>> \o EnsureFilesystemSuccess(FALSE),
                     ok |-> FALSE]
  /\ UNCHANGED <<api, graphics, fonts, files>>

\* FileStat::last_modified_pddatetime
LastModifiedPddatetime(inner) ==
  LET d == inner.m_day
      m == inner.m_month
      y == inner.m_year
      c == (y \div 1000) % 4
      weekday == ((d + m + y + c) % 7) + 1 IN
  [year |-> AsU16(inner.m_year), month |-> AsU8(inner.m_month),
   day |-> AsU8(inner.m_day), weekday |-> AsU8(weekday),
   hour |-> AsU8(inner.m_hour), minute |-> AsU8(inner.m_hour),
   second |-> AsU8(inner.m_second)]

\* last_modified_pddatetime called on the FileStat that stat just returned.
LastModified ==
  /\ last.op = "stat"
  /\ last.ok
  /\ last' = [op |-> "last_modified_pddatetime", calls |-> <<>>, ok |-> TRUE,
              inner |-> last.ret, ret |-> LastModifiedPddatetime(last.ret)]
  /\ UNCHANGED <<api, graphics, fonts, files>>

(* --------------------------- specifications --------------------------- *)
\* Bitmap lifetimes: every way to obtain a Bitmap, clone and drop.
Next ==
  \/ NewBitmap
  \/ LoadBitmap
  \/ GetFramebufferBitmap
  \/ GetDisplayBufferBitmap
  \/ GetDebugBitmap
  \/ \E w \in Cells : Rotated(w)
  \/ \E w \in Cells : Duplicate(w)
  \/ \E w \in Cells : Clone(w)
  \/ \E w \in Cells : DropBitmap(w)

Spec == Init /\ [][Next]_vars

\* Image files: load_bitmap creates a bitmap from a file, Bitmap::load
\* replaces the pixels of an existing one.
NextLoad ==
  \/ NewBitmap
  \/ LoadBitmap
  \/ \E w \in Cells : BitmapLoad(w)
  \/ \E w \in Cells : Clone(w)
  \/ \E w \in Cells : DropBitmap(w)

SpecLoad == Init /\ [][NextLoad]_vars

\* Bitmap tables: the cache of resolved indexes and the bitmaps it hands out.
NextTable ==
  \/ NewBitmapTable
  \/ LoadBitmapTable
  \/ \E t \in Tables : CloneTable(t)
  \/ \E t \in Tables, index \in Indexes : GetBitmap(t, index)
  \/ \E t \in Tables : TableLoad(t)
  \/ \E t \in Tables : DropTable(t)
  \/ \E w \in Cells : DropBitmap(w)

SpecTable == Init /\ [][NextTable]_vars

\* Drawing contexts: with_context, nested, around bitmap operations, with a
\* function table that may lack the context entries.
InitContext ==
  /\ api \in {Entries \ m : m \in SUBSET FallibleEntries}
  /\ next_handle = DebugBitmapHandle + 1
  /\ freed = [h \in Handles |-> 0]
  /\ ctx_stack = <<>>
  /\ table_content = [t \in TableHandles |-> [i \in Indexes |-> Null]]
  /\ table_freed = [t \in TableHandles |-> 0]
  /\ bitmap_inner = <<>>
  /\ held = <<>>
  /\ table_inner = <<>>
  /\ frames = <<>>
  /\ font_released = [h \in FontHandles |-> 0]
  /\ current_font = Null
  /\ font_inner = <<>>
  /\ file_closed = [h \in FileHandles |-> 0]
  /\ file_inner = <<>>
  /\ last = [op |-> "init", calls |-> <<>>, ok |-> TRUE]

NextContext ==
  \/ NewBitmap
  \/ \E w \in Cells : Clone(w)
  \/ \E w \in Cells : DropBitmap(w)
  \/ \E w \in Cells : WithContextEnter(w)
  \/ \E res \in {"ok", "err"} : WithContextReturn(res)

SpecContext == InitContext /\ [][NextContext]_vars

\* The same, with pop_context also called on its own.
NextInternal ==
  \/ NextContext
  \/ PopContext

SpecInternal == InitContext /\ [][NextInternal]_vars

\* Drawing contexts left by a panic of f as well as by its return.
NextUnwind ==
  \/ NextContext
  \/ WithContextUnwind

SpecUnwind == InitContext /\ [][NextUnwind]_vars

\* Drawing contexts with bitmaps drawn before, inside and after them.
NextDraw ==
  \/ NextContext
  \/ \E w \in Cells : Draw(w)

SpecDraw == InitContext /\ [][NextDraw]_vars

\* Pixels and colors: collision test, pattern colors, clear.
NextPixels ==
  \/ NewBitmap
  \/ GetDisplayBufferBitmap
  \/ \E w \in Cells : Clone(w)
  \/ \E w \in Cells : DropBitmap(w)
  \/ \E w, other \in Cells : CheckMaskCollision(w, other)
  \/ \E w, other \in Cells : IntoColor(w, other)
  \/ \E color \in Colors : Clear(color)

SpecPixels == Init /\ [][NextPixels]_vars

\* Display settings with asserted argument ranges.
NextDisplay ==
  \/ SetMosaic
  \/ SetScale

SpecDisplay == Init /\ [][NextDisplay]_vars

\* Fonts: load, install as the current font, draw text, drop.
NextFont ==
  \/ LoadFont
  \/ \E f \in Fonts : SetFont(f)
  \/ DrawText
  \/ \E f \in Fonts : DropFont(f)

SpecFont == Init /\ [][NextFont]_vars

\* Files: open, read, drop, and the one-call read_file_as_string.
NextFile ==
  \/ Open
  \/ \E f \in Files : Read(f)
  \/ \E f \in Files : DropFile(f)
  \/ ReadFileAsString

SpecFile == Init /\ [][NextFile]_vars

\* File times: the conversion of a stat record.
NextStat ==
  \/ Stat
  \/ LastModified

SpecStat == Init /\ [][NextStat]_vars

(* ------------------------------ claims -------------------------------- *)
NativeHandles == Handles \ {Null}

\* C1: every native bitmap handle is passed to freeBitmap at most once, only
\* when a cell that wraps it is owned; a handle wrapped as borrowed (the
\* display buffer, the debug bitmap) is never passed to freeBitmap.
C1_FreedAtMostOnceAndOnlyOwned ==
  /\ \A h \in NativeHandles : freed[h] <= 1
  /\ \A h \in NativeHandles :
       freed[h] >= 1 => \E w \in Cells : /\ bitmap_inner[w].raw_bitmap = h
                                         /\ bitmap_inner[w].owned
  /\ \A w \in Cells :
       (~bitmap_inner[w].owned /\ bitmap_inner[w].raw_bitmap \in NativeHandles)
         => freed[bitmap_inner[w].raw_bitmap] = 0
  /\ freed[DisplayBufferHandle] = 0
  /\ freed[DebugBitmapHandle] = 0

\* An owned bitmap and a borrowed one have both lost every reference.
C1_Witness ==
  /\ \E w \in Cells : /\ bitmap_inner[w].owned
                      /\ bitmap_inner[w].strong = 0
                      /\ freed[bitmap_inner[w].raw_bitmap] = 1
  /\ \E w \in Cells : /\ ~bitmap_inner[w].owned
                      /\ bitmap_inner[w].strong = 0

\* C2: dropping the last reference to an owned bitmap invokes freeBitmap on
\* its handle exactly once, in that very drop; no drop that leaves a reference
\* behind frees anything, and dropping the last reference to a borrowed bitmap
\* invokes nothing.
C2_FreedExactlyAtLastDrop ==
  /\ last.op = "drop_bitmap" =>
       LET c == bitmap_inner[last.arg] IN
       last.calls = IF c.strong = 0 /\ c.owned
                    THEN <<Call("freeBitmap", c.raw_bitmap)>>
                    ELSE <<>>
  /\ \A w \in Cells :
       LET c == bitmap_inner[w] IN
       (c.owned /\ c.raw_bitmap # Null) =>
          freed[c.raw_bitmap] = IF c.strong = 0 THEN 1 ELSE 0

\* The last of two references to an owned bitmap has just been dropped, after
\* a borrowed bitmap was dropped for good.
C2_Witness ==
  /\ last.op = "drop_bitmap"
  /\ bitmap_inner[last.arg].owned
  /\ bitmap_inner[last.arg].strong = 0
  /\ last.calls = <<Call("freeBitmap", bitmap_inner[last.arg].raw_bitmap)>>
  /\ \E w \in Cells : ~bitmap_inner[w].owned /\ bitmap_inner[w].strong = 0

\* C3: clone invokes no backend entry and returns a reference to the same
\* cell (same handle, same flag); as long as the caller holds a reference, the
\* cell's handle has not been freed.
C3_CloneSharesAndKeepsAlive ==
  /\ last.op = "clone" => last.calls = <<>> /\ last.ret = last.arg
  /\ \A w \in Cells :
       held[w] >= 1 => /\ bitmap_inner[w].strong >= held[w]
                       /\ bitmap_inner[w].raw_bitmap # Null
                            => freed[bitmap_inner[w].raw_bitmap] = 0

\* A reference of a cloned owned bitmap was dropped and one is left.
C3_Witness ==
  /\ last.op = "drop_bitmap"
  /\ held[last.arg] >= 1
  /\ bitmap_inner[last.arg].owned
  /\ bitmap_inner[last.arg].raw_bitmap # Null

\* C4: every successful get_bitmap(index) returns a Bitmap of the handle that
\* the first successful get_bitmap(index) of the table returned.
C4_SameHandlePerIndex ==
  (last.op = "get_bitmap" /\ last.ok) =>
     bitmap_inner[last.ret].raw_bitmap = table_inner[last.arg].first[last.index]

\* get_bitmap answered from the cache although the backend's table has been
\* reloaded and holds another bitmap at that index by now.
C4_Witness ==
  /\ last.op = "get_bitmap"
  /\ last.ok
  /\ last.cache_before[last.index] # 0
  /\ table_inner[last.arg].raw_bitmap_table # Null
  /\ table_content[table_inner[last.arg].raw_bitmap_table][last.index]
       # bitmap_inner[last.ret].raw_bitmap

\* C5: get_bitmap on a cached index invokes no backend entry and returns the
\* cached cell; on an uncached index it invokes getTableBitmap exactly once; a
\* null handle makes it fail and leaves the cache as it was (so the next call
\* misses again); a non-null handle is cached under the index as an owned
\* Bitmap, which is returned.
C5_GetBitmapCacheProtocol ==
  last.op = "get_bitmap" =>
    LET t == last.arg
        i == last.index
        raw_table == table_inner[t].raw_bitmap_table IN
    IF last.cache_before[i] # 0
    THEN /\ last.calls = <<>>
         /\ last.ok
         /\ last.ret = last.cache_before[i]
         /\ table_inner[t].bitmaps = last.cache_before
    ELSE /\ last.calls = <<Call("getTableBitmap", <<raw_table, i>>)>>
         /\ ~last.ok => table_inner[t].bitmaps = last.cache_before
         /\ last.ok => /\ table_inner[t].bitmaps = [last.cache_before EXCEPT ![i] = last.ret]
                       /\ bitmap_inner[last.ret].owned
                       /\ bitmap_inner[last.ret].raw_bitmap # Null
                       /\ bitmap_inner[last.ret].raw_bitmap = table_content[raw_table][i]

\* A lookup has just failed on an uncached index while another index is cached.
C5_Witness ==
  /\ last.op = "get_bitmap"
  /\ ~last.ok
  /\ \E j \in Indexes : table_inner[last.arg].bitmaps[j] # 0

\* C6: load, successful or not, leaves the cache as it was, and a get_bitmap
\* on a cached index returns the cached cell, whose handle is the one from
\* before the load, without a backend lookup.
C6_LoadKeepsCache ==
  /\ last.op = "table_load" =>
       /\ table_inner[last.arg].bitmaps = last.cache_before
       /\ \A i \in Indexes :
            last.cache_before[i] # 0 =>
               bitmap_inner[last.cache_before[i]].raw_bitmap
                 = table_inner[last.arg].first[i]
  /\ (last.op = "get_bitmap" /\ last.cache_before[last.index] # 0) =>
       /\ last.calls = <<>>
       /\ last.ret = last.cache_before[last.index]

\* A load has just succeeded on a table with a cached index.
C6_Witness ==
  /\ last.op = "table_load"
  /\ last.ok
  /\ table_inner[last.arg].raw_bitmap_table # Null
  /\ \E i \in Indexes : table_inner[last.arg].bitmaps[i] # 0

\* C7: freeBitmapTable is invoked on the table's handle by the drop of the
\* last BitmapTable clone and by nothing else: not at all while a clone is
\* alive, exactly once afterwards, whatever the handle.
C7_TableFreedExactlyAtLastDrop ==
  /\ \A t \in Tables :
       table_freed[table_inner[t].raw_bitmap_table]
         = IF table_inner[t].strong = 0 THEN 1 ELSE 0
  /\ last.op = "drop_table" =>
       LET c == table_inner[last.arg] IN
       IF c.strong = 0
       THEN /\ last.calls # <<>>
            /\ Head(last.calls) = Call("freeBitmapTable", c.raw_bitmap_table)
            /\ Count(last.calls, Call("freeBitmapTable", c.raw_bitmap_table)) = 1
       ELSE last.calls = <<>>

\* The last clone of a table with a cached bitmap has just been dropped.
C7_Witness ==
  /\ last.op = "drop_table"
  /\ table_inner[last.arg].strong = 0
  /\ Len(last.calls) > 1
  /\ table_freed[table_inner[last.arg].raw_bitmap_table] = 1

\* The handles of the activations in progress, outermost first.
FrameTargets == [k \in 1..Len(frames) |-> bitmap_inner[frames[k].bitmap].raw_bitmap]

\* C8: when the pop entry can be invoked, the backend's context stack is at
\* all times the targets of the with_context calls in progress, in nesting
\* order (empty, the frame buffer, when none is), and when a with_context
\* whose push succeeded returns, the stack is what it was on entry.
C8_ContextStackIsLifo ==
  Avail("popContext") =>
    /\ ctx_stack = FrameTargets
    /\ (last.op = "with_context" /\ last.pushed) => ctx_stack = last.base

\* A nested with_context has just returned into the outer one.
C8_Witness ==
  /\ Avail("popContext")
  /\ last.op = "with_context"
  /\ last.pushed
  /\ Len(frames) = 1
  /\ Len(ctx_stack) = 1

\* C9: pop_context with no push outstanding fails and leaves the frame
\* buffer as the active target.
C9_PopWithoutPushFails ==
  (last.op = "pop_context" /\ last.depth = 0) => (~last.ok /\ ctx_stack = <<>>)

\* C10: a with_context whose push succeeded invokes pop exactly once between
\* the return of f and its own return, whether f returned Ok or Err.
C10_PopIssuedOnEveryReturn ==
  (last.op = "with_context" /\ last.pushed) =>
     last.calls = <<Call("popContext", Null)>>

\* with_context has just returned after f reported a failure.
C10_Witness ==
  /\ last.op = "with_context"
  /\ last.pushed
  /\ last.f_res = "err"
  /\ last.calls = <<Call("popContext", Null)>>

\* C11: when f panics inside a with_context whose push succeeded, the pop is
\* still invoked and the context stack is back to what it was on entry.
C11_PopIssuedOnUnwind ==
  (last.op = "with_context" /\ last.pushed /\ last.f_res = "panic") =>
     /\ last.calls = <<Call("popContext", Null)>>
     /\ ctx_stack = last.base

\* C12: when the push of with_context fails, the push failure is what
\* with_context returns, f is never run (no activation exists while the push
\* entry is missing), no pop is invoked and the context stack is unchanged.
C12_PushFailureStopsWithContext ==
  /\ ~Avail("pushContext") => (frames = <<>> /\ ctx_stack = <<>>)
  /\ (last.op = "with_context" /\ ~last.pushed) =>
       /\ last.result = "err_push"
       /\ ~last.ran
       /\ last.calls = <<Call("pushContext", bitmap_inner[last.arg].raw_bitmap)>>
       /\ ctx_stack = last.base

\* with_context has just failed on its push.
C12_Witness ==
  /\ last.op = "with_context"
  /\ ~last.pushed
  /\ last.result = "err_push"

\* C13 as stated: once the push succeeded and f returned, with_context returns
\* the result of f, whatever the pop did.
C13_ReturnsOperationResult ==
  (last.op = "with_context" /\ last.pushed /\ last.f_res # "panic") =>
     last.result = last.f_res

\* C13 as amended: with_context returns the result of f when the pop
\* succeeded, and the failure of the pop when it did not.
C13_ReturnsPopFailureFirst ==
  (last.op = "with_context" /\ last.pushed /\ last.f_res # "panic") =>
     last.result = IF Avail("popContext") THEN last.f_res ELSE "err_pop"

\* f returned Ok and with_context has just returned the failure of its pop.
C13_Witness ==
  /\ last.op = "with_context"
  /\ last.pushed
  /\ last.f_res = "ok"
  /\ last.result = "err_pop"

\* C14: a draw through a Bitmap of the cell that a with_context in progress
\* redirects into is refused and reaches no backend entry.
C14_RedirectTargetIsExclusive ==
  (last.op = "draw" /\ Borrowed(last.arg)) => (~last.ok /\ last.calls = <<>>)

\* The bitmap of the innermost with_context in progress; Null outside any.
ScopeTarget ==
  IF frames = <<>> THEN Null
  ELSE bitmap_inner[frames[Len(frames)].bitmap].raw_bitmap

C16_LoadBitmapNullIsFailure ==
  (last.op = "load_bitmap" /\ last.out_err # "bad_path") =>
     /\ last.ok <=> last.raw # Null
     /\ last.ok =>
          /\ Len(bitmap_inner) = last.cells_before + 1
          /\ last.ret = Len(bitmap_inner)
          /\ bitmap_inner[last.ret].raw_bitmap = last.raw
          /\ bitmap_inner[last.ret].owned
     /\ ~last.ok =>
          /\ Len(bitmap_inner) = last.cells_before
          /\ last.err = IF last.out_err = "message" THEN "message" ELSE "generic"

\* load_bitmap has just failed on a null handle with the backend's message.
C16_Witness ==
  /\ last.op = "load_bitmap"
  /\ ~last.ok
  /\ last.out_err = "message"
  /\ last.err = "message"
  /\ Len(bitmap_inner) >= 1

\* C17: Bitmap::load succeeds exactly when the backend decoded the file, and
\* fails with the backend's message when there is one.
C17_LoadFailsWheneverDecodeFails ==
  last.op = "bitmap_load" =>
     /\ last.ok <=> last.outcome = "decoded"
     /\ last.outcome = "failed_message" => last.err = "message"

\* C18: no Bitmap wraps a null handle.
C18_NoBitmapWrapsNull ==
  \A w \in Cells : bitmap_inner[w].raw_bitmap # Null

\* C19: no BitmapTable wraps a null table handle, so no backend entry is ever
\* invoked on one.
C19_NoTableWrapsNull ==
  /\ \A t \in Tables : table_inner[t].raw_bitmap_table # Null
  /\ \A k \in 1..Len(last.calls) :
       /\ last.calls[k][1] \in {"loadIntoBitmapTable", "freeBitmapTable"}
            => last.calls[k][2] # Null
       /\ last.calls[k][1] = "getTableBitmap" => last.calls[k][2][1] # Null

\* C20: duplicate returns a new cell with one reference around the handle
\* copyBitmap returned, with the ownership flag of the source, and leaves the
\* source cell and the references to it as they were.
C20_DuplicateMirrorsOwnership ==
  last.op = "duplicate" =>
     /\ last.ret = Len(bitmap_inner)
     /\ last.ret # last.arg
     /\ bitmap_inner[last.ret] =
          [raw_bitmap |-> last.raw, owned |-> last.source_before.owned, strong |-> 1]
     /\ held[last.ret] = 1
     /\ bitmap_inner[last.arg] = last.source_before
     /\ held[last.arg] = last.held_before
     /\ last.calls = <<Call("copyBitmap", last.source_before.raw_bitmap)>>

\* A borrowed bitmap has just been duplicated into a borrowed copy.
C20_Witness ==
  /\ last.op = "duplicate"
  /\ ~bitmap_inner[last.arg].owned
  /\ ~bitmap_inner[last.ret].owned
  /\ bitmap_inner[last.ret].raw_bitmap # Null

\* C21: every Font that load_font returned wraps a non-null handle that no
\* other Font wraps, and the handle is released by exactly one realloc(font, 0)
\* when the Font is dropped and not before; dropping a Font invokes nothing
\* else, and no font handle reaches freeBitmap.
C21_FontReleasedOnceAtDrop ==
  /\ \A f \in Fonts : font_inner[f].raw # Null
  /\ \A f, g \in Fonts : f # g => font_inner[f].raw # font_inner[g].raw
  /\ \A f \in Fonts :
       font_released[font_inner[f].raw] = IF font_inner[f].alive THEN 0 ELSE 1
  /\ last.op = "drop_font" =>
       last.calls = <<Call("realloc", <<font_inner[last.arg].raw, 0>>)>>
  /\ last.op \in {"load_font", "set_font", "draw_text"} =>
       \A k \in 1..Len(last.calls) : last.calls[k][1] \notin {"realloc", "freeBitmap"}

\* One font has just been dropped and released while another one is alive.
C21_Witness ==
  /\ last.op = "drop_font"
  /\ font_released[font_inner[last.arg].raw] = 1
  /\ \E g \in Fonts : font_inner[g].alive /\ font_released[font_inner[g].raw] = 0

\* C28: the backend's current font is never a released one, and no draw_text
\* is issued while the current font has been released.
C28_CurrentFontNotReleased ==
  /\ current_font # Null => font_released[current_font] = 0
  /\ last.op = "draw_text" => ~last.released

\* C22: for footprints that do not intersect, check_mask_collision returns
\* false and never invokes checkMaskCollision; for footprints that do, it
\* returns true exactly when the backend reports a non-zero overlap.
C22_DisjointFootprintsSkipBackend ==
  last.op = "check_mask_collision" =>
     IF last.intersect
     THEN last.ret <=> last.pixels_covered # 0
     ELSE /\ ~last.ret
          /\ \A k \in 1..Len(last.calls) : last.calls[k][1] # "checkMaskCollision"

\* C24: the handle clear passes to the backend is the enumeration value for a
\* solid color, and for a pattern the address of storage that is live when
\* the backend is invoked.
C24_PatternStorageLiveAtCall ==
  last.op = "clear" =>
     IF last.color.kind = "Solid"
     THEN last.handle = [kind |-> "value", value |-> last.color.color]
     ELSE /\ last.handle.kind = "address"
          /\ last.handle.frame \in LiveFramesAtCall

\* C25: into_color passes the handle of its bitmap argument to
\* setColorToPattern and returns the pattern derived from that bitmap.
C25_IntoColorUsesArgument ==
  last.op = "into_color" =>
     /\ Head(last.calls) = Call("setColorToPattern", last.other_raw)
     /\ last.ret = [kind |-> "Pattern", pattern_of |-> last.other_raw]

\* C23: set_mosaic with a factor above 3 returns an InvalidArgument failure
\* and invokes nothing; with both factors in 0..3 it forwards them unchanged.
C23_MosaicRangeChecked ==
  last.op = "set_mosaic" =>
     IF last.x <= MosaicMax /\ last.y <= MosaicMax
     THEN last.ok /\ last.calls = <<Call("setMosaic", <<last.x, last.y>>)>>
     ELSE last.result = "InvalidArgument" /\ last.calls = <<>>

\* The native bitmaps the backend has allocated for newBitmap, loadBitmap,
\* rotatedBitmap, copyBitmap and copyFrameBufferBitmap.
Allocated == (DebugBitmapHandle + 1)..(next_handle - 1)

\* C26: once no reference to any bitmap is left, every native bitmap the
\* backend allocated has been passed to freeBitmap.
C26_NoBitmapLeak ==
  (\A w \in Cells : bitmap_inner[w].strong = 0) =>
     \A h \in Allocated : freed[h] >= 1

\* C27: a bitmap handle resolved from a table is passed to freeBitmap only
\* once freeBitmapTable has been called on that table: not while the table is
\* alive, whatever the callers drop, and in the drop that destroys the table
\* only after the freeBitmapTable call.
C27_TableBitmapsFreedAfterTable ==
  /\ \A t \in TableHandles \ {Null}, i \in Indexes :
       (table_content[t][i] # Null /\ freed[table_content[t][i]] >= 1)
          => table_freed[t] >= 1
  /\ last.op = "drop_table" =>
       \A k \in 1..Len(last.calls) :
          last.calls[k][1] = "freeBitmap" =>
             \E j \in 1..(k - 1) : last.calls[j][1] = "freeBitmapTable"
  /\ (last.op = "drop_bitmap" /\ table_freed[TableHandle] = 0) => last.calls = <<>>

\* The caller had dropped its Bitmap of a resolved index while the table was
\* alive; the drop of the table has now freed the table and then that bitmap.
C27_Witness ==
  /\ last.op = "drop_table"
  /\ Len(last.calls) >= 2
  /\ table_freed[TableHandle] = 1
  /\ \E i \in Indexes : /\ table_content[TableHandle][i] # Null
                        /\ freed[table_content[TableHandle][i]] = 1

\* C29: every File wraps a non-null handle of its own, which is closed exactly
\* once, by the drop of the File and not before; read_file_as_string closes
\* the file it opened exactly once on success, on a failed read and on invalid
\* UTF-8, as the last thing it does, and closes nothing when stat or open
\* failed.
C29_FileClosedOnceAtDrop ==
  /\ \A f \in Files : file_inner[f].raw # Null
  /\ \A f, g \in Files : f # g => file_inner[f].raw # file_inner[g].raw
  /\ \A f \in Files :
       file_closed[file_inner[f].raw] = IF file_inner[f].alive THEN 0 ELSE 1
  /\ last.op = "drop_file" => last.calls = <<Call("close", file_inner[last.arg].raw)>>
  /\ (last.op = "open" /\ ~last.ok) => Len(file_inner) = last.files_before
  /\ last.op = "read_file_as_string" =>
       IF last.exit \in {"stat", "open"}
       THEN /\ \A k \in 1..Len(last.calls) : last.calls[k][1] # "close"
            /\ Len(file_inner) = last.files_before
       ELSE /\ Count(last.calls, Call("close", last.raw)) = 1
            /\ last.calls[Len(last.calls)] = Call("close", last.raw)
            /\ file_closed[last.raw] = 1

\* read_file_as_string has just failed in its read and closed the file, while
\* a File opened before is still open.
C29_Witness ==
  /\ last.op = "read_file_as_string"
  /\ last.exit = "read"
  /\ file_closed[last.raw] = 1
  /\ \E f \in Files : file_inner[f].alive /\ file_closed[file_inner[f].raw] = 0

\* C30: every field of the PDDateTime that last_modified_pddatetime returns
\* equals the field of the same name in the stat record.
C30_FieldsEqualRecord ==
  last.op = "last_modified_pddatetime" =>
     /\ last.ret.year = last.inner.m_year
     /\ last.ret.month = last.inner.m_month
     /\ last.ret.day = last.inner.m_day
     /\ last.ret.hour = last.inner.m_hour
     /\ last.ret.minute = last.inner.m_minute
     /\ last.ret.second = last.inner.m_second
====
